---- MODULE Spec2Model ----
(***************************************************************************)
(* A model of prayer-times-ics-generator.py: the TokenManager (persisted   *)
(* token record, reuse or refresh, bounded retry), the CalendarGenerator   *)
(* event synthesis (adhan event, prayer event, identifiers, reminders),    *)
(* AWQAFApi.fetch_prayer_times (date range, schedule request, entries of   *)
(* the response), generate's loop over days and prayers, and main.         *)
(*                                                                         *)
(* Python values are modelled as follows.  An optional value (a JSON null  *)
(* or a string or a number) is a sequence: None is << >>, the value v is   *)
(* << v >>.  A JSON object is a function from the keys it holds to their   *)
(* values.  Times are whole seconds (token expiry) or whole minutes        *)
(* (calendar events).                                                      *)
(***************************************************************************)
EXTENDS Integers, Sequences, FiniteSets, TLC

None == << >>
Some(v) == << v >>

(***************************************************************************)
(* Bounds of the model.                                                    *)
(***************************************************************************)
\* The clock readings the runs start from are NowBase .. NowBase + MaxSkew.
NowBase == 1000
\* Expiry times lie within MaxSkew seconds around now + 5 minutes.
MaxSkew == 1
\* The number of invocations of the program that share the token file.
MaxRuns == 2

(***************************************************************************)
(* Program constants.                                                      *)
(***************************************************************************)
MAX_RETRIES == 3
RETRY_DELAY == 1
\* timedelta(minutes=5) in seconds
BUFFER_SECONDS == 300

TokenFields == {"clientAccessToken", "clientRefreshToken", "refreshTokenExpiryTime"}
ConfigFields == {"clientGuid", "clientSecret"}

VARIABLES
    pc,           \* where the current invocation is
    tokenFile,    \* auth_token.json: [kind, data]
    config,       \* config.json: [kind, keys]
    now,          \* the clock reading of this invocation, seconds
    retry_count,  \* refresh_token's retry_count argument
    authCalls,    \* requests sent to the authorization endpoint by this invocation
    refreshSeqs,  \* refresh sequences started by this invocation
    waits,        \* the sleeps of this invocation, in order, seconds
    lastResp,     \* the latest authorization response of this invocation
    result,       \* the outcome of get_token
    tokenFile0,   \* auth_token.json as this invocation found it
    runs,         \* invocations so far
    syn,          \* the (day, prayer) the calendar generator handled last
    published,    \* the identifiers an earlier generation gave one (day, prayer)
    args,         \* main's arguments: [year, month, day, city, emirate]
    schedRequests, \* the date ranges of the requests sent to the schedule endpoint
    item,         \* fetch_prayer_times: the entry of the response its loop is at
    itemIndex,    \* fetch_prayer_times: the entries of the response handled so far
    prayer_data,  \* the "prayertimes" list: fetch builds it, the generator holds it
    fetchOutcome, \* how fetch_prayer_times ended
    generator,    \* the CalendarGenerator: [city, emirate, first_date]
    cal,          \* self.cal: the events added, each with the iteration that added it
    dayIndex,     \* generate: the day its outer loop is at
    prayerIndex,  \* generate: the prayer its inner loop is at
    calFile,      \* the calendar file written
    raised        \* the exception main caught, "" for none

tokVars == << pc, tokenFile, config, now, retry_count, authCalls, refreshSeqs,
              waits, lastResp, result, tokenFile0, runs >>

evVars == << syn, published >>

mainVars == << args, schedRequests, item, itemIndex, prayer_data, fetchOutcome, generator,
               cal, dayIndex, prayerIndex, calFile, raised >>

vars == << tokVars, evVars, mainVars >>

(***************************************************************************)
(* The files and the responses the model draws from.                       *)
(***************************************************************************)
AccessVals == {None, Some(""), Some("tokA")}
RefreshVals == {None, Some(""), Some("refA")}
ExpiryVals(t) ==
    {None, Some(0)} \cup {Some(t + BUFFER_SECONDS + d) : d \in (0 - MaxSkew)..MaxSkew}

FullTokenData(t) ==
    {[clientAccessToken |-> a, clientRefreshToken |-> r, refreshTokenExpiryTime |-> e] :
        a \in AccessVals, r \in RefreshVals, e \in ExpiryVals(t)}

\* Every JSON object holding some of the three fields.
TokenDatas(t) ==
    {[k \in S |-> full[k]] : full \in FullTokenData(t), S \in SUBSET TokenFields}

NoData == [k \in {} |-> None]

TokenFiles(t) ==
    {[kind |-> "absent", data |-> NoData], [kind |-> "unparsable", data |-> NoData]}
    \cup {[kind |-> "json", data |-> d] : d \in TokenDatas(t)}

ConfigFiles ==
    {[kind |-> "absent", keys |-> {}], [kind |-> "unparsable", keys |-> {}]}
    \cup {[kind |-> "json", keys |-> K] : K \in SUBSET ConfigFields}

\* What one request to the authorization endpoint can come back with.
\*   transport : connection error or timeout   (RequestException)
\*   http      : an error status               (RequestException)
\*   json      : a JSON object; isSuccess is its flag, fields the token
\*               fields it holds, body their values
AuthResponses(t) ==
    {[kind |-> "transport", isSuccess |-> FALSE, body |-> NoData],
     [kind |-> "http", isSuccess |-> FALSE, body |-> NoData],
     [kind |-> "json", isSuccess |-> FALSE, body |-> NoData]}
    \cup {[kind |-> "json", isSuccess |-> TRUE, body |-> b] :
            b \in {[clientAccessToken |-> Some(a), clientRefreshToken |-> Some("refB"),
                    refreshTokenExpiryTime |-> Some(e)] :
                        a \in {"tokB", "tokC"},
                        e \in {t + BUFFER_SECONDS, t + BUFFER_SECONDS + MaxSkew}}}
    \cup {[kind |-> "json", isSuccess |-> TRUE,
           body |-> [k \in {"clientRefreshToken", "refreshTokenExpiryTime"} |->
                        IF k = "clientRefreshToken" THEN Some("refB")
                        ELSE Some(t + BUFFER_SECONDS + MaxSkew)]]}

NoResult == [kind |-> "none", token |-> None, err |-> "", cause |-> ""]
Returned(tok) == [kind |-> "token", token |-> tok, err |-> "", cause |-> ""]
Raised(e, c) == [kind |-> "error", token |-> None, err |-> e, cause |-> c]

NoResponse == [kind |-> "none", isSuccess |-> FALSE, body |-> NoData]

(***************************************************************************)
(* TokenManager._load_config: the configuration, or the error it raises.   *)
(***************************************************************************)
LoadConfig_AnyField(cfg) ==
    IF cfg.kind = "absent" THEN [ok |-> FALSE, err |-> "ConfigFileNotFound"]
    ELSE IF cfg.kind = "unparsable" THEN [ok |-> FALSE, err |-> "ConfigInvalidJSON"]
    ELSE IF ~(\E f \in ConfigFields : f \in cfg.keys)
        THEN [ok |-> FALSE, err |-> "ConfigMissingFields"]
    ELSE [ok |-> TRUE, err |-> ""]

LoadConfig(cfg) ==
    IF cfg.kind = "absent" THEN [ok |-> FALSE, err |-> "ConfigFileNotFound"]
    ELSE IF cfg.kind = "unparsable" THEN [ok |-> FALSE, err |-> "ConfigInvalidJSON"]
    ELSE IF ~(\A f \in ConfigFields : f \in cfg.keys)
        THEN [ok |-> FALSE, err |-> "ConfigMissingFields"]
    ELSE [ok |-> TRUE, err |-> ""]

(***************************************************************************)
(* Python truth of an optional string: None and "" are false.              *)
(***************************************************************************)
Truthy(x) == x # None /\ x[1] # ""

\* "If we have no expiry time or empty tokens, refresh"
HasEmptyField(data) ==
    \/ data["refreshTokenExpiryTime"] = None
    \/ ~Truthy(data["clientAccessToken"])
    \/ ~Truthy(data["clientRefreshToken"])

\* current_time < expiry_time - timedelta(minutes=5)
TokenIsFresh_DoubleBuffer(data, t) ==
    t < data["refreshTokenExpiryTime"][1] - 2 * BUFFER_SECONDS

TokenIsFresh_NoBuffer(data, t) ==
    t < data["refreshTokenExpiryTime"][1]

TokenIsFresh(data, t) ==
    t < data["refreshTokenExpiryTime"][1] - BUFFER_SECONDS

(***************************************************************************)
(* get_token up to its decision: which way it leaves, for the token file   *)
(* it finds and the clock reading t.                                       *)
(*   "FileNotFound"     open() raises, re-raised as Exception               *)
(*   "JSONDecodeError"  json.load raises, re-raised as it is               *)
(*   "KeyError"         a required field is missing                        *)
(*   "refresh"          return cls.refresh_token()                         *)
(*   "cached"           return token_data['clientAccessToken']             *)
(***************************************************************************)
TokenDecision_RefreshOnAbsent(file, t) ==
    IF file.kind \in {"absent", "unparsable"} THEN "refresh"
    ELSE IF ~(\A f \in TokenFields : f \in DOMAIN file.data) THEN "KeyError"
    ELSE IF HasEmptyField(file.data) THEN "refresh"
    ELSE IF TokenIsFresh(file.data, t) THEN "cached"
    ELSE "refresh"

TokenDecision_RefreshOnMissing(file, t) ==
    IF file.kind = "absent" THEN "FileNotFound"
    ELSE IF file.kind = "unparsable" THEN "JSONDecodeError"
    ELSE IF ~(\A f \in TokenFields : f \in DOMAIN file.data) THEN "refresh"
    ELSE IF HasEmptyField(file.data) THEN "refresh"
    ELSE IF TokenIsFresh(file.data, t) THEN "cached"
    ELSE "refresh"

TokenDecision(file, t) ==
    IF file.kind = "absent" THEN "FileNotFound"
    ELSE IF file.kind = "unparsable" THEN "JSONDecodeError"
    ELSE IF ~(\A f \in TokenFields : f \in DOMAIN file.data) THEN "KeyError"
    ELSE IF HasEmptyField(file.data) THEN "refresh"
    ELSE IF TokenIsFresh(file.data, t) THEN "cached"
    ELSE "refresh"

(***************************************************************************)
(* refresh_token, one attempt.                                             *)
(***************************************************************************)
\* The exception one response makes the attempt raise, "" for none.
\*   RequestException : requests.post or raise_for_status failed
\*   ValueError       : isSuccess is false or missing
\*   KeyError         : isSuccess is true and a token field is missing
AttemptError(resp) ==
    IF resp.kind \in {"transport", "http"} THEN "RequestException"
    ELSE IF ~resp.isSuccess THEN "ValueError"
    ELSE IF ~(\A f \in TokenFields : f \in DOMAIN resp.body) THEN "KeyError"
    ELSE ""

\* except (requests.exceptions.RequestException, ValueError)
Retryable(err) == err \in {"RequestException", "ValueError"}

\* The text the failure carries: str(e) of the attempt's exception.
ErrorText(resp) ==
    IF resp.kind = "transport" THEN "ConnectionError"
    ELSE IF resp.kind = "http" THEN "HTTPError"
    ELSE IF ~resp.isSuccess THEN "AuthorizationFailed"
    ELSE "KeyError"

\* if retry_count < cls.MAX_RETRIES
ShouldRetry_Inclusive(rc) == rc <= MAX_RETRIES

ShouldRetry(rc) == rc < MAX_RETRIES

\* time.sleep(cls.RETRY_DELAY * (retry_count + 1))
RetryDelay_Constant(rc) == RETRY_DELAY

RetryDelay(rc) == RETRY_DELAY * (rc + 1)

\* The token file a successful response leaves: json.dump(token_data, f).
SavedTokenFile_AccessOnly(file, resp) ==
    IF file.kind = "json" /\ DOMAIN file.data = TokenFields
    THEN [kind |-> "json",
          data |-> [file.data EXCEPT !["clientAccessToken"] = resp.body["clientAccessToken"]]]
    ELSE [kind |-> "json", data |-> [f \in TokenFields |-> resp.body[f]]]

SavedTokenFile_StaleAccess(file, resp) ==
    [kind |-> "json",
     data |-> [f \in TokenFields |->
                IF f = "clientAccessToken" /\ file.kind = "json" /\ f \in DOMAIN file.data
                THEN file.data[f] ELSE resp.body[f]]]

SavedTokenFile(file, resp) ==
    [kind |-> "json", data |-> [f \in TokenFields |-> resp.body[f]]]

(***************************************************************************)
(* PrayerConfig.                                                           *)
(***************************************************************************)
Prayers == << "fajr", "zuhr", "asr", "maghrib", "isha" >>

PrayerNames == {Prayers[i] : i \in 1..Len(Prayers)}

ADHAN_DURATIONS ==
    [p \in PrayerNames |->
        CASE p = "fajr" -> 25
          [] p = "zuhr" -> 20
          [] p = "asr" -> 20
          [] p = "maghrib" -> 5
          [] p = "isha" -> 20]

PRAYER_DURATION == 10

ADHAN_COLOR == "#008000"
PRAYER_COLOR == "#ba1e55"

(***************************************************************************)
(* datetime.  A date string "YYYY-MM-DD" is << y, m, d >>, a time string   *)
(* "HH:MM" is << h, mi >> and the empty string is << >>.  A datetime is    *)
(* [ord, min]: the proleptic Gregorian ordinal of its day (1 is            *)
(* 0001-01-01) and the minute of that day.                                 *)
(***************************************************************************)
MINYEAR == 1
MAXYEAR == 9999
MinutesPerDay == 1440

IsLeap(y) == y % 4 = 0 /\ (y % 100 # 0 \/ y % 400 = 0)

DaysInMonth(y, m) ==
    IF m = 2 THEN (IF IsLeap(y) THEN 29 ELSE 28)
    ELSE IF m \in {4, 6, 9, 11} THEN 30
    ELSE 31

DaysBeforeYear(y) ==
    (y - 1) * 365 + ((y - 1) \div 4) - ((y - 1) \div 100) + ((y - 1) \div 400)

RECURSIVE DaysBeforeMonth(_, _)
DaysBeforeMonth(y, m) ==
    IF m <= 1 THEN 0 ELSE DaysBeforeMonth(y, m - 1) + DaysInMonth(y, m - 1)

ValidDate(date) ==
    /\ date[1] \in MINYEAR..MAXYEAR
    /\ date[2] \in 1..12
    /\ date[3] \in 1..DaysInMonth(date[1], date[2])

ValidTime(time) ==
    /\ Len(time) = 2
    /\ time[1] \in 0..23
    /\ time[2] \in 0..59

Ordinal(date) == DaysBeforeYear(date[1]) + DaysBeforeMonth(date[1], date[2]) + date[3]

MaxOrdinal == DaysBeforeYear(MAXYEAR + 1)

\* CalendarGenerator._parse_datetime(f"{date} {time}"): datetime.fromisoformat
\* raises ValueError unless the string is a date and a time of day.
ParseDatetime(date, time) ==
    IF ValidDate(date) /\ ValidTime(time)
    THEN [ok |-> TRUE, dt |-> [ord |-> Ordinal(date), min |-> time[1] * 60 + time[2]]]
    ELSE [ok |-> FALSE, dt |-> [ord |-> 0, min |-> 0]]

\* datetime + timedelta(minutes=k), before the range check
AddMinutes(dt, k) ==
    [ord |-> dt.ord + ((dt.min + k) \div MinutesPerDay),
     min |-> (dt.min + k) % MinutesPerDay]

\* datetime + timedelta raises OverflowError outside 0001-01-01 .. 9999-12-31
Representable(dt) == dt.ord \in 1..MaxOrdinal

(***************************************************************************)
(* CalendarGenerator: the events of one prayer of one day.                 *)
(***************************************************************************)
\* str.title() of a prayer name
Title(prayer) ==
    CASE prayer = "fajr" -> "Fajr"
      [] prayer = "zuhr" -> "Zuhr"
      [] prayer = "asr" -> "Asr"
      [] prayer = "maghrib" -> "Maghrib"
      [] prayer = "isha" -> "Isha"

\* hashlib.md5(event_str.encode()).hexdigest(): the digest of a string is
\* written as the string it is the digest of, strings that differ having
\* digests that differ.
CreateEventUid(event_str) == << "md5", event_str >>

CreateAlarm_UnsignedTrigger(description, trigger) ==
    [action |-> "DISPLAY", description |-> description,
     trigger |-> IF trigger < 0 THEN 0 - trigger ELSE trigger]

\* CalendarGenerator._create_alarm
CreateAlarm(description, trigger) ==
    [action |-> "DISPLAY", description |-> description, trigger |-> trigger]

NoEvent ==
    [uid |-> << >>, dtstart |-> [ord |-> 0, min |-> 0], dtend |-> [ord |-> 0, min |-> 0],
     summary |-> << >>, description |-> << >>, location |-> "", color |-> "",
     alarm |-> CreateAlarm(<< >>, 0)]

AdhanEventStr_WithTime(self, date, prayer, time) ==
    << date, prayer, "adhan", self.city, time >>

\* f"{date}_{prayer}_adhan_{self.city}"
AdhanEventStr(self, date, prayer, time) == << date, prayer, "adhan", self.city >>

\* f"{date}_{prayer}_prayer_{self.city}"
PrayerEventStr(self, date, prayer, time) == << date, prayer, "prayer", self.city >>

\* CalendarGenerator._create_adhan_event: the event, or ok = FALSE when it raises
CreateAdhanEvent(self, date, prayer, time) ==
    LET parsed == ParseDatetime(date, time)
        event_dt == parsed.dt
        duration == ADHAN_DURATIONS[prayer]
    IN  IF ~parsed.ok \/ ~Representable(AddMinutes(event_dt, duration))
        THEN [ok |-> FALSE, event |-> NoEvent]
        ELSE [ok |-> TRUE,
              event |-> [uid |-> CreateEventUid(AdhanEventStr(self, date, prayer, time)),
                         dtstart |-> event_dt,
                         dtend |-> AddMinutes(event_dt, duration),
                         summary |-> << Title(prayer), "Adhan till Iqamah" >>,
                         description |-> << Title(prayer), "Adhan Time for", self.city >>,
                         location |-> self.city,
                         color |-> ADHAN_COLOR,
                         alarm |-> CreateAlarm(<< Title(prayer), "Adhan" >>, 0)]]

CreatePrayerEvent_AtPrayerTime(self, date, prayer, time, adhan_duration) ==
    LET parsed == ParseDatetime(date, time)
        prayer_start == parsed.dt
    IN  IF ~parsed.ok \/ ~Representable(AddMinutes(prayer_start, PRAYER_DURATION))
        THEN [ok |-> FALSE, event |-> NoEvent]
        ELSE [ok |-> TRUE,
              event |-> [uid |-> CreateEventUid(PrayerEventStr(self, date, prayer, time)),
                         dtstart |-> prayer_start,
                         dtend |-> AddMinutes(prayer_start, PRAYER_DURATION),
                         summary |-> << Title(prayer), "Prayer" >>,
                         description |-> << Title(prayer), "Prayer Time for", self.city >>,
                         location |-> self.city,
                         color |-> PRAYER_COLOR,
                         alarm |-> CreateAlarm(<< Title(prayer), "Prayer in 5 minutes" >>, 0 - 5)]]

\* CalendarGenerator._create_prayer_event
CreatePrayerEvent(self, date, prayer, time, adhan_duration) ==
    LET parsed == ParseDatetime(date, time)
        event_dt == parsed.dt
        prayer_start == AddMinutes(event_dt, adhan_duration)
    IN  IF \/ ~parsed.ok
           \/ ~Representable(prayer_start)
           \/ ~Representable(AddMinutes(prayer_start, PRAYER_DURATION))
        THEN [ok |-> FALSE, event |-> NoEvent]
        ELSE [ok |-> TRUE,
              event |-> [uid |-> CreateEventUid(PrayerEventStr(self, date, prayer, time)),
                         dtstart |-> prayer_start,
                         dtend |-> AddMinutes(prayer_start, PRAYER_DURATION),
                         summary |-> << Title(prayer), "Prayer" >>,
                         description |-> << Title(prayer), "Prayer Time for", self.city >>,
                         location |-> self.city,
                         color |-> PRAYER_COLOR,
                         alarm |-> CreateAlarm(<< Title(prayer), "Prayer in 5 minutes" >>, 0 - 5)]]

\* generate, the body of its loop over the prayers of a day: the events it
\* adds to the calendar for one prayer, and how it leaves the iteration
\*   "skipped"  the time is empty
\*   "ok"       both events added
\*   "error"    an exception, caught and printed; what was added stays
ProcessPrayer_AdhanOnly(self, date, prayer, time) ==
    IF time = << >> THEN [outcome |-> "skipped", added |-> << >>]
    ELSE LET adhan == CreateAdhanEvent(self, date, prayer, time)
         IN  IF ~adhan.ok THEN [outcome |-> "error", added |-> << >>]
             ELSE [outcome |-> "ok", added |-> << adhan.event >>]

ProcessPrayer(self, date, prayer, time) ==
    IF time = << >> THEN [outcome |-> "skipped", added |-> << >>]
    ELSE LET adhan == CreateAdhanEvent(self, date, prayer, time)
             pray == CreatePrayerEvent(self, date, prayer, time, ADHAN_DURATIONS[prayer])
         IN  IF ~adhan.ok THEN [outcome |-> "error", added |-> << >>]
             ELSE IF ~pray.ok THEN [outcome |-> "error", added |-> << adhan.event >>]
             ELSE [outcome |-> "ok", added |-> << adhan.event, pray.event >>]

(***************************************************************************)
(* The inputs of the event synthesis.                                      *)
(***************************************************************************)
Cities == {"Dubai", "Sharjah"}
Emirates == {"Dubai", "Sharjah"}
\* two days of 2025, the last day a datetime can hold, and a day that is none
DateStrs == {<< 2025, 1, 15 >>, << 2025, 12, 31 >>, << 9999, 12, 31 >>, << 2025, 2, 30 >>}
\* '' and three "HH:MM", two of them within half an hour of midnight
TimeStrs == {<< >>, << 5, 12 >>, << 23, 50 >>, << 23, 59 >>}
\* self.first_date, from the first day of the schedule the generator was given
FirstDates == {<< 2025, 1, 1 >>, << 2025, 1, 15 >>}

Generators ==
    {[city |-> c, emirate |-> e, first_date |-> f] :
        c \in Cities, e \in Emirates, f \in FirstDates}

NoSyn ==
    [self |-> [city |-> "", emirate |-> "", first_date |-> << >>],
     date |-> << >>, prayer |-> "", time |-> << >>, outcome |-> "none", added |-> << >>]

NoPublished ==
    [city |-> "", date |-> << >>, prayer |-> "", uids |-> << >>, changed |-> {}]

EventIdle == syn = NoSyn /\ published = NoPublished

NoArgs == [year |-> 0, month |-> 0, day |-> None, city |-> "", emirate |-> ""]
NoItem == [areaNameEn |-> None, gDate |-> None, fields |-> << >>]
NoGenerator == [city |-> "", emirate |-> "", first_date |-> << >>]
NoFile == [written |-> FALSE, name |-> << >>, events |-> << >>]

MainIdle ==
    /\ args = NoArgs
    /\ schedRequests = << >>
    /\ item = NoItem
    /\ itemIndex = 0
    /\ prayer_data = << >>
    /\ fetchOutcome = "none"
    /\ generator = NoGenerator
    /\ cal = << >>
    /\ dayIndex = 0
    /\ prayerIndex = 0
    /\ calFile = NoFile
    /\ raised = ""

\* no token has been asked for
TokenUnused ==
    /\ now = NowBase
    /\ tokenFile = [kind |-> "absent", data |-> NoData]
    /\ config = [kind |-> "absent", keys |-> {}]
    /\ retry_count = 0
    /\ authCalls = 0
    /\ refreshSeqs = 0
    /\ waits = << >>
    /\ lastResp = NoResponse
    /\ result = NoResult
    /\ tokenFile0 = tokenFile
    /\ runs = 1

TokenIdle == pc = "synthesis" /\ TokenUnused

\* One iteration of generate's loop over the prayers, for a generator, a day
\* and a prayer.  It is taken twice, for a generation and a regeneration:
\* what the generation gave is kept in published.
SynthesizePrayer ==
    /\ pc \in {"synthesis", "resynthesis"}
    /\ pc' = IF pc = "synthesis" THEN "resynthesis" ELSE "synthesized"
    /\ \E self \in Generators, date \in DateStrs, i \in 1..Len(Prayers), time \in TimeStrs :
        LET r == ProcessPrayer(self, date, Prayers[i], time) IN
        /\ syn' = [self |-> self, date |-> date, prayer |-> Prayers[i], time |-> time,
                   outcome |-> r.outcome, added |-> r.added]
        /\ published' =
            IF syn.outcome = "none" THEN published
            ELSE [city |-> syn.self.city, date |-> syn.date, prayer |-> syn.prayer,
                  uids |-> [k \in 1..Len(syn.added) |-> syn.added[k].uid],
                  \* what the regeneration is given that the generation was not
                  changed |-> {n \in {"time", "emirate", "first_date"} :
                                \/ n = "time" /\ time # syn.time
                                \/ n = "emirate" /\ self.emirate # syn.self.emirate
                                \/ n = "first_date" /\ self.first_date # syn.self.first_date}]
    /\ UNCHANGED << tokenFile, config, now, retry_count, authCalls, refreshSeqs,
                    waits, lastResp, result, tokenFile0, runs >>
    /\ UNCHANGED mainVars

EventInit == TokenIdle /\ EventIdle /\ MainIdle

EventNext == SynthesizePrayer

SpecEvent == EventInit /\ [][EventNext]_vars

(***************************************************************************)
(* The token manager as one invocation of the program uses it.             *)
(***************************************************************************)
TokenInit ==
    /\ pc = "get_token"
    /\ now = NowBase
    /\ tokenFile \in TokenFiles(NowBase)
    /\ config \in ConfigFiles
    /\ retry_count = 0
    /\ authCalls = 0
    /\ refreshSeqs = 0
    /\ waits = << >>
    /\ lastResp = NoResponse
    /\ result = NoResult
    /\ tokenFile0 = tokenFile
    /\ runs = 1

\* TokenManager.get_token, up to its return or its call of refresh_token.
GetToken ==
    /\ pc = "get_token"
    /\ LET d == TokenDecision(tokenFile, now) IN
        /\ pc' = CASE d = "cached" -> "returned"
                   [] d = "refresh" -> "refresh_token"
                   [] OTHER -> "failed"
        /\ result' = CASE d = "cached" -> Returned(tokenFile.data["clientAccessToken"])
                       [] d = "refresh" -> NoResult
                       [] d = "FileNotFound" -> Raised("TokenFileNotFound", "FileNotFoundError")
                       [] d = "JSONDecodeError" -> Raised("JSONDecodeError", "JSONDecodeError")
                       [] OTHER -> Raised("InvalidTokenStructure", "MissingFields")
        /\ refreshSeqs' = IF d = "refresh" THEN refreshSeqs + 1 ELSE refreshSeqs
    /\ retry_count' = 0
    /\ UNCHANGED << tokenFile, config, now, authCalls, waits, lastResp, tokenFile0, runs >>
    /\ UNCHANGED evVars
    /\ UNCHANGED mainVars

\* TokenManager.refresh_token(retry_count): one call, with the request it
\* sends and the response resp it gets, up to its return, its raise or its
\* call of refresh_token(retry_count + 1).
RefreshToken ==
    /\ pc = "refresh_token"
    /\ IF ~LoadConfig(config).ok
       THEN /\ pc' = "failed"
            /\ result' = Raised("ConfigError", LoadConfig(config).err)
            /\ UNCHANGED << tokenFile, retry_count, authCalls, waits, lastResp >>
       ELSE \E resp \in AuthResponses(now) :
            /\ authCalls' = authCalls + 1
            /\ lastResp' = resp
            /\ IF AttemptError(resp) = ""
               THEN /\ tokenFile' = SavedTokenFile(tokenFile, resp)
                    /\ result' = Returned(resp.body["clientAccessToken"])
                    /\ pc' = "returned"
                    /\ UNCHANGED << retry_count, waits >>
               ELSE IF Retryable(AttemptError(resp))
               THEN IF ShouldRetry(retry_count)
                    THEN /\ waits' = Append(waits, RetryDelay(retry_count))
                         /\ retry_count' = retry_count + 1
                         /\ UNCHANGED << pc, result, tokenFile >>
                    ELSE /\ pc' = "failed"
                         /\ result' = Raised("AuthError", ErrorText(resp))
                         /\ UNCHANGED << tokenFile, retry_count, waits >>
               \* a KeyError leaves refresh_token and is caught by get_token
               ELSE /\ pc' = "failed"
                    /\ result' = Raised("InvalidTokenStructure", ErrorText(resp))
                    /\ UNCHANGED << tokenFile, retry_count, waits >>
    /\ UNCHANGED << config, now, refreshSeqs, tokenFile0, runs >>
    /\ UNCHANGED evVars
    /\ UNCHANGED mainVars

\* The program is run again later: the token file is what the last run left.
NextRun ==
    /\ pc \in {"returned", "failed"}
    /\ runs < MaxRuns
    /\ runs' = runs + 1
    /\ \E d \in 0..MaxSkew : now' = now + d
    /\ pc' = "get_token"
    /\ tokenFile0' = tokenFile
    /\ retry_count' = 0
    /\ authCalls' = 0
    /\ refreshSeqs' = 0
    /\ waits' = << >>
    /\ lastResp' = NoResponse
    /\ result' = NoResult
    /\ UNCHANGED << tokenFile, config >>
    /\ UNCHANGED evVars
    /\ UNCHANGED mainVars

Init == TokenInit /\ EventIdle /\ MainIdle

Next == GetToken \/ RefreshToken \/ NextRun

Spec == Init /\ [][Next]_vars

\* requests.post(..., timeout=10) returns or raises, and the program runs on.
FairSpec == Spec /\ WF_vars(GetToken) /\ WF_vars(RefreshToken)

(***************************************************************************)
(* Claims about the token manager.                                         *)
(***************************************************************************)
\* The record has all three fields.
HasAllFields(file) == file.kind = "json" /\ DOMAIN file.data = TokenFields

\* All three fields present, tokens non-empty, expiry non-null.
ValidRecord(file) ==
    /\ HasAllFields(file)
    /\ file.data["clientAccessToken"] \notin {None, Some("")}
    /\ file.data["clientRefreshToken"] \notin {None, Some("")}
    /\ file.data["refreshTokenExpiryTime"] # None

ExpiryOf(file) == file.data["refreshTokenExpiryTime"][1]

\* A response the attempt returns on: the flag set and the three fields there.
SuccessfulResponse(resp) ==
    resp.kind = "json" /\ resp.isSuccess /\ TokenFields \subseteq DOMAIN resp.body

\* A response of the two kinds refresh_token retries on.
FailedResponse(resp) ==
    resp.kind \in {"transport", "http"} \/ (resp.kind = "json" /\ ~resp.isSuccess)

\* C1: for a persisted record with the three fields present, non-empty tokens,
\* a non-null expiry and expiry > now + 5 minutes, get_token returns the
\* record's access token, sends nothing to the authorization endpoint and
\* leaves the persisted record as it was.
C1_CachedTokenReturned ==
    (pc # "get_token" /\ ValidRecord(tokenFile0) /\ ExpiryOf(tokenFile0) > now + 5 * 60)
        => /\ pc = "returned"
           /\ result.kind = "token"
           /\ result.token = tokenFile0.data["clientAccessToken"]
           /\ authCalls = 0
           /\ refreshSeqs = 0
           /\ tokenFile = tokenFile0

C1_Witness ==
    /\ pc = "returned"
    /\ ValidRecord(tokenFile0)
    /\ ExpiryOf(tokenFile0) = now + 5 * 60 + 1
    /\ result.token = Some("tokA")

\* C2: for a record with the three fields present whose expiry is at most
\* now + 5 minutes, or with an empty or null token or a null expiry, one call
\* of get_token starts exactly one refresh sequence, and when an attempt of it
\* succeeds the persisted record is the three fields of that response and
\* get_token returns that response's access token.
C2_StaleRecordRefreshed ==
    (/\ pc # "get_token"
     /\ HasAllFields(tokenFile0)
     /\ (~ValidRecord(tokenFile0) \/ ExpiryOf(tokenFile0) <= now + 5 * 60))
        => /\ refreshSeqs = 1
           /\ pc = "returned" => SuccessfulResponse(lastResp)
           /\ SuccessfulResponse(lastResp)
                => /\ pc = "returned"
                   /\ tokenFile.kind = "json"
                   /\ tokenFile.data = [f \in TokenFields |-> lastResp.body[f]]
                   /\ result.kind = "token"
                   /\ result.token = lastResp.body["clientAccessToken"]

\* the boundary: expiry = now + 5 minutes exactly, refreshed with success
C2_Witness ==
    /\ pc = "returned"
    /\ ValidRecord(tokenFile0)
    /\ ExpiryOf(tokenFile0) = now + 5 * 60
    /\ refreshSeqs = 1
    /\ result.token = Some("tokB")
    /\ tokenFile.data["clientRefreshToken"] = Some("refB")

\* C3, as claimed: when the token file is absent or cannot be parsed,
\* get_token does not fail there but attempts a refresh.
C3_AbsentFileRefreshes ==
    (pc # "get_token" /\ tokenFile0.kind \in {"absent", "unparsable"})
        => refreshSeqs = 1

\* C3, amended: when the token file is absent or cannot be parsed, get_token
\* fails at that point (file-not-found error, resp. the JSON decode error),
\* starts no refresh, sends nothing to the authorization endpoint and leaves
\* the token file as it was.
C3_AbsentFileFails ==
    (pc # "get_token" /\ tokenFile0.kind \in {"absent", "unparsable"})
        => /\ pc = "failed"
           /\ result.kind = "error"
           /\ result.err = IF tokenFile0.kind = "absent" THEN "TokenFileNotFound"
                           ELSE "JSONDecodeError"
           /\ refreshSeqs = 0
           /\ authCalls = 0
           /\ tokenFile = tokenFile0

C3_Witness ==
    /\ pc = "failed"
    /\ tokenFile0.kind = "absent"
    /\ LoadConfig(config).ok
    /\ result.err = "TokenFileNotFound"

\* C4, as claimed: when the record parses but lacks a required field,
\* get_token attempts a refresh, as it does for a present but empty field.
C4_MissingFieldRefreshes ==
    (pc # "get_token" /\ tokenFile0.kind = "json" /\ DOMAIN tokenFile0.data # TokenFields)
        => refreshSeqs = 1

\* C4, amended: when the record parses but lacks a required field, get_token
\* fails with the invalid-structure error, starts no refresh, sends nothing
\* to the authorization endpoint and leaves the record as it was; a record
\* whose fields are all present but one of them empty or null starts a
\* refresh.
C4_MissingFieldFails ==
    /\ (pc # "get_token" /\ tokenFile0.kind = "json" /\ DOMAIN tokenFile0.data # TokenFields)
        => /\ pc = "failed"
           /\ result.kind = "error"
           /\ result.err = "InvalidTokenStructure"
           /\ refreshSeqs = 0
           /\ authCalls = 0
           /\ tokenFile = tokenFile0
    /\ (pc # "get_token" /\ HasAllFields(tokenFile0) /\ ~ValidRecord(tokenFile0))
        => refreshSeqs = 1

C4_Witness ==
    /\ pc = "failed"
    /\ tokenFile0.kind = "json"
    /\ DOMAIN tokenFile0.data = {"clientAccessToken", "clientRefreshToken"}
    /\ LoadConfig(config).ok
    /\ result.err = "InvalidTokenStructure"

\* What C5 says of every state of a refresh sequence.
RefreshSequenceBounded ==
    \* at most 3 retries, one wait before each, one request per call
    /\ retry_count <= 3
    /\ Len(waits) = retry_count
    /\ authCalls <= retry_count + 1
    \* it goes on only after a failed authorization call
    /\ (pc = "refresh_token" /\ authCalls > 0)
        => FailedResponse(lastResp) /\ authCalls = retry_count
    \* it stops at the first successful response
    /\ SuccessfulResponse(lastResp)
        => pc = "returned" /\ authCalls = retry_count + 1
    \* when the last of the attempts has failed too, AuthError with its error
    /\ (pc = "failed" /\ FailedResponse(lastResp))
        => /\ retry_count = 3
           /\ authCalls = 4
           /\ result.err = "AuthError"
           /\ result.cause = ErrorText(lastResp)
    /\ (result.kind = "error" /\ result.err = "AuthError")
        => FailedResponse(lastResp) /\ retry_count = 3

\* C5: a refresh sequence terminates; it retries after a failed authorization
\* call, at most 3 times, stops at the first success, and when every attempt
\* has failed it ends in AuthError carrying the last attempt's error.
C5_RefreshTerminates ==
    /\ []RefreshSequenceBounded
    /\ (pc = "refresh_token") ~> (pc \in {"returned", "failed"})

C5_Witness ==
    /\ pc = "failed"
    /\ result.err = "AuthError"
    /\ result.cause = "HTTPError"
    /\ retry_count = 3
    /\ waits = << 1, 2, 3 >>

\* C6: the persisted record changes only at a successful refresh response,
\* and then to the three fields of that response; a cached return, a failed
\* attempt, an exhausted sequence and a configuration failure leave it.
C6_TokenFileFrame ==
    [][/\ (pc = "refresh_token" /\ pc' = "returned")
            => /\ SuccessfulResponse(lastResp')
               /\ tokenFile'.kind = "json"
               /\ tokenFile'.data = [f \in TokenFields |-> lastResp'.body[f]]
       /\ ~(pc = "refresh_token" /\ pc' = "returned")
            => tokenFile' = tokenFile]_vars

C6_Witness ==
    /\ pc = "returned"
    /\ HasAllFields(tokenFile0)
    /\ tokenFile # tokenFile0
    /\ tokenFile.data["clientRefreshToken"] = Some("refB")
    /\ retry_count = 2

\* The configuration is missing, is not JSON, or lacks a credential.
ConfigBad(cfg) ==
    \/ cfg.kind # "json"
    \/ "clientGuid" \notin cfg.keys
    \/ "clientSecret" \notin cfg.keys

\* C7: with the configuration missing, malformed or lacking clientGuid or
\* clientSecret, a refresh fails with the configuration error at once: no
\* request to the authorization endpoint, no retry, the record unchanged.
C7_ConfigErrorIsFatal ==
    (ConfigBad(config) /\ refreshSeqs = 1)
        => /\ authCalls = 0
           /\ retry_count = 0
           /\ waits = << >>
           /\ tokenFile = tokenFile0
           /\ pc # "returned"
           /\ pc = "failed" => result.kind = "error" /\ result.err = "ConfigError"

C7_Witness ==
    /\ pc = "failed"
    /\ refreshSeqs = 1
    /\ config.kind = "json"
    /\ config.keys = {"clientGuid"}
    /\ result.err = "ConfigError"
    /\ result.cause = "ConfigMissingFields"

(***************************************************************************)
(* Claims about the event synthesis.                                       *)
(***************************************************************************)
\* The minutes from datetime a to datetime b.
MinutesFrom(a, b) == (b.ord - a.ord) * (24 * 60) + (b.min - a.min)

\* The adhan durations as the claims give them.
ClaimedAdhanMinutes(p) ==
    CASE p = "fajr" -> 25
      [] p = "zuhr" -> 20
      [] p = "asr" -> 20
      [] p = "maghrib" -> 5
      [] p = "isha" -> 20

\* The prayer time t of the pair handled last, as a datetime.
SynTime == [ord |-> Ordinal(syn.date), min |-> syn.time[1] * 60 + syn.time[2]]

\* When an alarm fires: its trigger is relative to the start of its event.
ReminderTime(event) == AddMinutes(event.dtstart, event.alarm.trigger)

\* C8: for every date, prayer p and non-empty time t the adhan event spans
\* [t, t + D(p)) with D = fajr 25, zuhr 20, asr 20, maghrib 5, isha 20, and the
\* prayer event spans [t + D(p), t + D(p) + 10): it starts where the adhan
\* event ends.  Both events are there for every date before the last day a
\* datetime can hold.
C8_PairContiguous ==
    /\ Len(syn.added) >= 1
        => /\ syn.time # << >>
           /\ syn.added[1].dtstart = SynTime
           /\ MinutesFrom(SynTime, syn.added[1].dtend) = ClaimedAdhanMinutes(syn.prayer)
    /\ Len(syn.added) = 2
        => /\ syn.added[2].dtstart = syn.added[1].dtend
           /\ MinutesFrom(SynTime, syn.added[2].dtstart) = ClaimedAdhanMinutes(syn.prayer)
           /\ MinutesFrom(syn.added[2].dtstart, syn.added[2].dtend) = 10
    /\ (/\ syn.outcome # "none"
        /\ syn.time # << >>
        /\ ValidDate(syn.date)
        /\ syn.date # << 9999, 12, 31 >>)
        => syn.outcome = "ok" /\ Len(syn.added) = 2

\* ten minutes before midnight: both events end on the next day
C8_Witness ==
    /\ syn.outcome = "ok"
    /\ syn.prayer = "maghrib"
    /\ syn.date = << 2025, 12, 31 >>
    /\ syn.time = << 23, 50 >>
    /\ syn.added[1].dtend = [ord |-> Ordinal(syn.date), min |-> 23 * 60 + 55]
    /\ syn.added[2].dtstart = [ord |-> Ordinal(syn.date), min |-> 23 * 60 + 55]
    /\ syn.added[2].dtend = [ord |-> Ordinal(<< 2026, 1, 1 >>), min |-> 5]

\* C9: the adhan event's reminder fires at its start, t, and the prayer
\* event's reminder 5 minutes before its start, at t + D(p) - 5; for
\* 2025-01-15 with fajr 05:12 they fire at 05:12 and at 05:32 of that day.
C9_Reminders ==
    /\ Len(syn.added) >= 1
        => ReminderTime(syn.added[1]) = SynTime
    /\ Len(syn.added) = 2
        => /\ MinutesFrom(ReminderTime(syn.added[2]), syn.added[2].dtstart) = 5
           /\ MinutesFrom(SynTime, ReminderTime(syn.added[2]))
                = ClaimedAdhanMinutes(syn.prayer) - 5
    /\ (syn.date = << 2025, 1, 15 >> /\ syn.prayer = "fajr" /\ syn.time = << 5, 12 >>)
        => /\ Len(syn.added) = 2
           /\ ReminderTime(syn.added[1]) = [ord |-> 739266, min |-> 5 * 60 + 12]
           /\ ReminderTime(syn.added[2]) = [ord |-> 739266, min |-> 5 * 60 + 32]

C9_Witness ==
    /\ syn.outcome = "ok"
    /\ syn.date = << 2025, 1, 15 >>
    /\ syn.prayer = "fajr"
    /\ syn.time = << 5, 12 >>
    /\ syn.added[1].alarm.trigger = 0
    /\ syn.added[2].dtstart.min = 5 * 60 + 37
    /\ ReminderTime(syn.added[2]).min = 5 * 60 + 32

\* C10: the identifier of an event is a function of (date, prayer, kind,
\* city): a generation and a regeneration that agree on date, prayer and city
\* give the adhan event the same identifier and the prayer event the same
\* identifier, whatever time, emirate and schedule each of them was given.
C10_UidDeterministic ==
    (/\ published.city = syn.self.city
     /\ published.date = syn.date
     /\ published.prayer = syn.prayer)
        => \A k \in 1..Len(syn.added) :
            k <= Len(published.uids) => syn.added[k].uid = published.uids[k]

C10_Witness ==
    /\ pc = "synthesized"
    /\ published.city = syn.self.city
    /\ published.date = syn.date
    /\ published.prayer = syn.prayer
    /\ published.changed = {"time", "emirate", "first_date"}
    /\ Len(published.uids) = 2
    /\ Len(syn.added) = 2
    /\ syn.added[1].uid = published.uids[1]
    /\ syn.added[2].uid = published.uids[2]

(***************************************************************************)
(* Claims about the retry waits and the number of authorization calls.     *)
(***************************************************************************)
\* C19: the wait before the k-th retry (k = 1, 2, 3) is base * k with a base
\* of 1 second, so the waits are 1, 2, 3 seconds, strictly increasing and
\* linear; there is no wait before the first attempt and none after the
\* final failure.
C19_LinearBackoff ==
    /\ Len(waits) <= 3
    /\ \A k \in 1..Len(waits) : waits[k] = 1 * k
    /\ \A k \in 1..(Len(waits) - 1) : waits[k] < waits[k + 1]
    \* a wait only follows a failed attempt: none before the first one
    /\ authCalls = 0 => waits = << >>
    /\ Len(waits) <= authCalls
    /\ pc = "refresh_token" => Len(waits) = authCalls
    \* the attempt that ends the sequence is followed by no wait
    /\ (pc \in {"returned", "failed"} /\ authCalls > 0) => Len(waits) = authCalls - 1
    /\ (pc = "failed" /\ result.err = "AuthError") => waits = << 1, 2, 3 >>

\* three retries after three waits, then a success at the fourth call
C19_Witness ==
    /\ pc = "returned"
    /\ authCalls = 4
    /\ waits = << 1, 2, 3 >>
    /\ SuccessfulResponse(lastResp)

\* C20, as claimed: a refresh sequence that ends in failure has made exactly
\* MAX_RETRIES = 3 calls to the authorization endpoint, the number its
\* message "Failed to refresh token after 3 attempts" gives, and no sequence
\* makes more than 3 authorization calls.
C20_ThreeAuthorizationCalls ==
    /\ authCalls <= MAX_RETRIES
    /\ (pc = "failed" /\ result.err = "AuthError") => authCalls = MAX_RETRIES

(***************************************************************************)
(* AWQAFApi.fetch_prayer_times.  A string of the response is the sequence  *)
(* of the parts that its 'T' separate: "2025-01-15T05:12:30" is            *)
(* << << 2025, 1, 15 >>, << 5, 12, 30 >> >>, "05:12:30" is                  *)
(* << << 5, 12, 30 >> >> and "" is << << >> >>.  A key an entry lacks is    *)
(* None (for the fields: outside the domain).                              *)
(***************************************************************************)
EmptyStr == << << >> >>

\* calendar.monthrange(year, month)[1], Feb of 28 days whatever the year
MonthRange_NoLeap(year, month) == IF month = 2 THEN 28 ELSE DaysInMonth(year, month)

\* calendar.monthrange(year, month)[1]
MonthRange(year, month) == DaysInMonth(year, month)

\* "if day:" of an Optional[int]
DayGiven(day) == day # None /\ day # Some(0)

\* start_date and end_date, as f"{year}-{month:02d}-{day:02d}"
DateRange(year, month, day) ==
    IF DayGiven(day)
    THEN [start_date |-> << year, month, day[1] >>, end_date |-> << year, month, day[1] >>]
    ELSE [start_date |-> << year, month, 1 >>,
          end_date |-> << year, month, MonthRange(year, month) >>]

\* headers: f'Bearer {TokenManager.get_token()}' is evaluated before
\* requests.get; when get_token raises, fetch_prayer_times is left there
MaySendRequest_Always(res) == TRUE

MaySendRequest(res) == res.kind = "token"

\* str.lower()
Lower(s) ==
    CASE s = "Dubai" -> "dubai"
      [] s = "DUBAI" -> "dubai"
      [] s = "Sharjah" -> "sharjah"
      [] OTHER -> s

\* item.get(key, '') for the keys areaNameEn and gDate
GetOr(v, default) == IF v = None THEN default ELSE v[1]

\* item.get('areaNameEn', '').lower() != city.lower()
CityMatches_CaseSensitive(it, city) == GetOr(it.areaNameEn, "") = city

CityMatches(it, city) == Lower(GetOr(it.areaNameEn, "")) = Lower(city)

\* item.get('gDate', '').split('T')[0]
DatePart(it) == GetOr(it.gDate, EmptyStr)[1]

\* datetime.strptime(time_part, '%H:%M:%S')
ValidHMS(time_part) ==
    /\ Len(time_part) = 3
    /\ time_part[1] \in 0..23
    /\ time_part[2] \in 0..59
    /\ time_part[3] \in 0..61

\* One prayer of an entry, lines 256-268: the "HH:MM" recorded for it, or
\* the exception that leaves the loop over the prayers.
FormatTime_RaisesOnBadTime(it, api_field) ==
    LET time_str == IF api_field \in DOMAIN it.fields THEN it.fields[api_field] ELSE EmptyStr
    IN  IF time_str = EmptyStr THEN [raises |-> "", time |-> << >>]
        ELSE IF Len(time_str) < 2 THEN [raises |-> "IndexError", time |-> << >>]
        ELSE IF ValidHMS(time_str[2])
             THEN [raises |-> "", time |-> << time_str[2][1], time_str[2][2] >>]
             ELSE [raises |-> "ValueError", time |-> << >>]

FormatTime(it, api_field) ==
    LET time_str == IF api_field \in DOMAIN it.fields THEN it.fields[api_field] ELSE EmptyStr
    IN  IF time_str = EmptyStr THEN [raises |-> "", time |-> << >>]
        \* time_str.split('T')[1]
        ELSE IF Len(time_str) < 2 THEN [raises |-> "IndexError", time |-> << >>]
        ELSE IF ValidHMS(time_str[2])
             \* time_obj.strftime('%H:%M')
             THEN [raises |-> "", time |-> << time_str[2][1], time_str[2][2] >>]
             \* except ValueError: prayer_times[prayer] = ''
             ELSE [raises |-> "", time |-> << >>]

NoSchedule == [date |-> << >>, timings |-> << >>]

\* The body of the loop over data['prayerData'] for one entry: whether an
\* element is appended to formatted_data["prayertimes"], and which.
\*   "city"    the entry is of another area
\*   "nodate"  its date part is empty
\*   "raised"  an exception, caught and printed by the loop
\*   "kept"    appended
ProcessItem(it, city) ==
    IF ~CityMatches(it, city) THEN [how |-> "city", schedule |-> NoSchedule]
    ELSE IF DatePart(it) = << >> THEN [how |-> "nodate", schedule |-> NoSchedule]
    ELSE IF \E p \in PrayerNames : FormatTime(it, p).raises # ""
    THEN [how |-> "raised", schedule |-> NoSchedule]
    ELSE [how |-> "kept",
          schedule |-> [date |-> DatePart(it),
                        timings |-> [p \in PrayerNames |-> FormatTime(it, p).time]]]

\* if not formatted_data["prayertimes"]: raise ValueError(...)
FetchResult_EmptyReturned(prayertimes) == "ok"

FetchResult(prayertimes) == IF prayertimes = << >> THEN "NoDataError" ELSE "ok"

(***************************************************************************)
(* CalendarGenerator.generate: the loop over the days and the file.        *)
(***************************************************************************)
\* datetime.strptime(date, "%Y-%m-%d").day and the test of the day asked
\* for, lines 409-412
\*   "raise"    strptime raises ValueError, outside every try of generate
\*   "skip"     a day other than the one asked for
\*   "process"  the prayers of the day are gone through
DayFilter_NoFilter(date, day) ==
    IF ~DayGiven(day) THEN "process"
    ELSE IF ~ValidDate(date) THEN "raise"
    ELSE "process"

DayFilter(date, day) ==
    IF ~DayGiven(day) THEN "process"
    ELSE IF ~ValidDate(date) THEN "raise"
    ELSE IF date[3] # day[1] THEN "skip"
    ELSE "process"

\* CalendarGenerator._get_output_path: directory and file name, or
\* ok = FALSE when strptime of the last day's date raises
GetOutputPath(self, prayertimes, day) ==
    LET year == self.first_date[1]
        month_name == self.first_date[2]
        base_dir == << year, month_name, self.emirate, self.city >>
    IN  IF DayGiven(day)
        THEN [ok |-> TRUE, output_dir |-> Append(base_dir, day[1]),
              filename |-> << "Prayer-Times-On", day[1], month_name >>]
        ELSE LET last_day == prayertimes[Len(prayertimes)].date IN
             IF ~ValidDate(last_day)
             THEN [ok |-> FALSE, output_dir |-> << >>, filename |-> << >>]
             ELSE [ok |-> TRUE, output_dir |-> base_dir,
                   filename |-> << "Prayer-Times-From-To", self.first_date[3], last_day[3] >>]

\* cal.add_component, once for each event an iteration adds
AddComponents_Prepend(calendar, at, added) ==
    [k \in 1..Len(added) |-> [at |-> at, event |-> added[k]]] \o calendar

AddComponents(calendar, at, added) ==
    calendar \o [k \in 1..Len(added) |-> [at |-> at, event |-> added[k]]]

\* cal.to_ical(): the events of the document, in its order
ToIcal(calendar) == [k \in 1..Len(calendar) |-> calendar[k].event]

\* CalendarGenerator(prayer_data, args.city, args.emirate), and the empty
\* calendar generate starts with
NewGenerator ==
    /\ pc = "fetched"
    /\ IF ValidDate(prayer_data[1].date)
       THEN /\ generator' = [city |-> args.city, emirate |-> args.emirate,
                             first_date |-> prayer_data[1].date]
            /\ pc' = "generate"
            /\ dayIndex' = 1
            /\ UNCHANGED raised
       ELSE /\ pc' = "main_failed"
            /\ raised' = "ValueError"
            /\ UNCHANGED << generator, dayIndex >>
    /\ cal' = << >>
    /\ UNCHANGED << args, schedRequests, item, itemIndex, prayer_data, fetchOutcome,
                    prayerIndex, calFile >>
    /\ UNCHANGED << tokenFile, config, now, retry_count, authCalls, refreshSeqs,
                    waits, lastResp, result, tokenFile0, runs >>
    /\ UNCHANGED evVars

\* generate, the head of its loop over the days, for the next day
GenerateDay ==
    /\ pc = "generate"
    /\ dayIndex <= Len(prayer_data)
    /\ LET f == DayFilter(prayer_data[dayIndex].date, args.day) IN
        /\ pc' = CASE f = "raise" -> "main_failed"
                   [] f = "skip" -> "generate"
                   [] OTHER -> "generate_prayers"
        /\ raised' = IF f = "raise" THEN "ValueError" ELSE raised
        /\ dayIndex' = IF f = "skip" THEN dayIndex + 1 ELSE dayIndex
        /\ prayerIndex' = IF f = "process" THEN 1 ELSE prayerIndex
    /\ UNCHANGED << args, schedRequests, item, itemIndex, prayer_data, fetchOutcome,
                    generator, cal, calFile >>
    /\ UNCHANGED << tokenFile, config, now, retry_count, authCalls, refreshSeqs,
                    waits, lastResp, result, tokenFile0, runs >>
    /\ UNCHANGED evVars

\* generate, one iteration of its loop over the prayers of a day
GeneratePrayer ==
    /\ pc = "generate_prayers"
    /\ LET day_data == prayer_data[dayIndex]
           prayer == Prayers[prayerIndex]
           r == ProcessPrayer(generator, day_data.date, prayer, day_data.timings[prayer])
       IN  cal' = AddComponents(cal, << dayIndex, prayerIndex >>, r.added)
    /\ IF prayerIndex < Len(Prayers)
       THEN /\ prayerIndex' = prayerIndex + 1
            /\ UNCHANGED << pc, dayIndex >>
       ELSE /\ prayerIndex' = 0
            /\ dayIndex' = dayIndex + 1
            /\ pc' = "generate"
    /\ UNCHANGED << args, schedRequests, item, itemIndex, prayer_data, fetchOutcome,
                    generator, calFile, raised >>
    /\ UNCHANGED << tokenFile, config, now, retry_count, authCalls, refreshSeqs,
                    waits, lastResp, result, tokenFile0, runs >>
    /\ UNCHANGED evVars

\* generate, after the loop: the path, and the file written
SaveCalendar ==
    /\ pc = "generate"
    /\ dayIndex > Len(prayer_data)
    /\ LET path == GetOutputPath(generator, prayer_data, args.day) IN
       IF path.ok
       THEN /\ calFile' = [written |-> TRUE,
                           name |-> << path.output_dir, path.filename >>,
                           events |-> ToIcal(cal)]
            /\ pc' = "done"
            /\ UNCHANGED raised
       ELSE /\ pc' = "main_failed"
            /\ raised' = "ValueError"
            /\ UNCHANGED calFile
    /\ UNCHANGED << args, schedRequests, item, itemIndex, prayer_data, fetchOutcome,
                    generator, cal, dayIndex, prayerIndex >>
    /\ UNCHANGED << tokenFile, config, now, retry_count, authCalls, refreshSeqs,
                    waits, lastResp, result, tokenFile0, runs >>
    /\ UNCHANGED evVars

(***************************************************************************)
(* generate on the schedules fetch_prayer_times can return.                *)
(***************************************************************************)
\* the days of a schedule, at most
MaxDays == 2

\* two days of 2025 a day apart, a day that is none, the last day there is
GenDates == {<< 2025, 1, 14 >>, << 2025, 1, 15 >>, << 2025, 2, 30 >>, << 9999, 12, 31 >>}

\* the timings of a day: the prayers of empty at '', the others at time
Timings(time, empty) == [p \in PrayerNames |-> IF p \in empty THEN << >> ELSE time]

GenTimings ==
    {Timings(t, e) : t \in {<< 5, 12 >>, << 23, 50 >>}, e \in {{}, {"fajr"}, PrayerNames}}

DaySchedules == {[date |-> d, timings |-> t] : d \in GenDates, t \in GenTimings}

Schedules == UNION {[1..n -> DaySchedules] : n \in 1..MaxDays}

GenArgs ==
    {[year |-> 2025, month |-> 1, day |-> d, city |-> "Dubai", emirate |-> "Dubai"] :
        d \in {None, Some(15)}}

\* fetch_prayer_times has returned a schedule
GenInit ==
    /\ pc = "fetched"
    /\ TokenUnused
    /\ EventIdle
    /\ args \in GenArgs
    /\ prayer_data \in Schedules
    /\ fetchOutcome = "ok"
    /\ schedRequests = << >>
    /\ item = NoItem
    /\ itemIndex = 0
    /\ generator = NoGenerator
    /\ cal = << >>
    /\ dayIndex = 0
    /\ prayerIndex = 0
    /\ calFile = NoFile
    /\ raised = ""

GenNext == NewGenerator \/ GenerateDay \/ GeneratePrayer \/ SaveCalendar

SpecGen == GenInit /\ [][GenNext]_vars

(***************************************************************************)
(* Claims about generate.                                                  *)
(***************************************************************************)
\* The iterations of the loop over the prayers that generate has completed.
Handled(i, j) ==
    /\ i \in 1..Len(prayer_data)
    /\ j \in 1..Len(Prayers)
    /\ pc \in {"generate", "generate_prayers", "done", "main_failed"}
    /\ generator # NoGenerator
    /\ DayFilter(prayer_data[i].date, args.day) = "process"
    /\ \/ i < dayIndex
       \/ i = dayIndex /\ pc = "generate_prayers" /\ j < prayerIndex

\* The events the document holds from iteration (i, j), in its order.
EventsAt(i, j) == SelectSeq(cal, LAMBDA c : c.at = << i, j >>)

\* The synthesis of (date, prayer, time) raises: the date is none of the
\* calendar, or an event would end after the last datetime there is.
SynthesisFails(date, prayer, time) ==
    \/ ~ValidDate(date)
    \/ /\ date = << 9999, 12, 31 >>
       /\ time[1] * 60 + time[2] + ADHAN_DURATIONS[prayer] + 10 >= 24 * 60

\* The two events of (i, j), next to each other in the document.
FullPairAt(i, j) ==
    \E k \in 1..(Len(cal) - 1) :
        /\ cal[k].at = << i, j >>
        /\ cal[k + 1].at = << i, j >>
        /\ cal[k].event.summary = << Title(Prayers[j]), "Adhan till Iqamah" >>
        /\ cal[k + 1].event.summary = << Title(Prayers[j]), "Prayer" >>
        /\ cal[k].event.dtstart.ord = Ordinal(prayer_data[i].date)
        /\ Len(EventsAt(i, j)) = 2

C11_EachIterationOnItsOwn ==
    \A i \in 1..Len(prayer_data), j \in 1..Len(Prayers) :
        LET date == prayer_data[i].date
            time == prayer_data[i].timings[Prayers[j]]
        IN  /\ (Handled(i, j) /\ time = << >>) => EventsAt(i, j) = << >>
            /\ (Handled(i, j) /\ time # << >> /\ SynthesisFails(date, Prayers[j], time))
                => Len(EventsAt(i, j)) <= 1
            /\ (Handled(i, j) /\ time # << >> /\ ~SynthesisFails(date, Prayers[j], time))
                => FullPairAt(i, j)
            /\ ~Handled(i, j) => EventsAt(i, j) = << >>

\* An iteration over a prayer goes on to the next prayer or the next day.
C11_IterationGoesOn ==
    (pc = "generate_prayers")
        => /\ pc' \in {"generate_prayers", "generate"}
           /\ raised' = raised
           /\ << dayIndex', prayerIndex' >> =
                IF prayerIndex < 5 THEN << dayIndex, prayerIndex + 1 >>
                ELSE << dayIndex + 1, 0 >>

\* C11: in generate a day whose time for a prayer is empty adds no adhan and
\* no prayer event for it, and a failure of the synthesis of one (day,
\* prayer) is skipped: in both cases every other prayer of that day and
\* every other day gone through still adds its complete pair of events.
C11_SkipsAndFailuresAreLocal ==
    /\ []C11_EachIterationOnItsOwn
    /\ [][C11_IterationGoesOn]_vars

\* a month of two days written: on the first every synthesis fails, the
\* second lacks fajr and adds the pairs of its four other prayers
C11_Witness ==
    /\ pc = "done"
    /\ args.day = None
    /\ prayer_data = << [date |-> << 9999, 12, 31 >>, timings |-> Timings(<< 23, 50 >>, {})],
                        [date |-> << 2025, 1, 15 >>, timings |-> Timings(<< 5, 12 >>, {"fajr"})] >>
    /\ EventsAt(2, 1) = << >>
    /\ \A j \in 2..5 : FullPairAt(2, j)
    /\ \A j \in 1..5 : Len(EventsAt(1, j)) <= 1

\* The date of the day whose iteration added the k-th event of the document.
DateOfEvent(k) == prayer_data[cal[k].at[1]].date

IsAdhan(k) == cal[k].event.summary[2] = "Adhan till Iqamah"

\* Within a day: the canonical order of the prayers, adhan before prayer.
OrderedWithinDay(k, l) ==
    /\ cal[k].at[2] <= cal[l].at[2]
    /\ cal[k].at[2] = cal[l].at[2] => (IsAdhan(k) /\ ~IsAdhan(l))

ScheduleDateOrdered ==
    \A i \in 1..Len(prayer_data), n \in 1..Len(prayer_data) :
        (i < n /\ ValidDate(prayer_data[i].date) /\ ValidDate(prayer_data[n].date))
            => Ordinal(prayer_data[i].date) <= Ordinal(prayer_data[n].date)

MaxItems == 2

\* --year, --month, --day, --city, --emirate
MainArgs ==
    {[year |-> y, month |-> mo, day |-> d, city |-> "Dubai", emirate |-> "Dubai"] :
        y \in {2024, 2025}, mo \in {1, 2}, d \in {None, Some(0), Some(15)}}

\* auth_token.json: a record that is current, and one that has expired
MainTokenFiles ==
    {[kind |-> "json",
      data |-> [clientAccessToken |-> Some("tokA"), clientRefreshToken |-> Some("refA"),
                refreshTokenExpiryTime |-> Some(e)]] :
        e \in {NowBase + BUFFER_SECONDS + 1, NowBase}}

\* config.json: complete, and absent
MainConfigs == {c \in ConfigFiles : c.kind = "absent" \/ LoadConfig(c).ok}

\* the times the response gives the prayers of a day, "HH:MM:SS"
ApiTime(p) ==
    CASE p = "fajr" -> << 5, 12, 30 >>
      [] p = "zuhr" -> << 12, 25, 0 >>
      [] p = "asr" -> << 15, 40, 10 >>
      [] p = "maghrib" -> << 18, 5, 0 >>
      [] p = "isha" -> << 19, 35, 59 >>

\* the values of the field of a prayer: a datetime string, one whose time is
\* no time of day, and a time without a date and a 'T'
FieldValues(d, p) ==
    [datetime |-> << d, ApiTime(p) >>,
     badtime |-> << d, << 25, 12, 0 >> >>,
     timeonly |-> << ApiTime(p) >>]

\* the prayer fields of an entry: every prayer with its datetime string, or
\* asr with none (the key lacking), an empty or another value
ItemFields(d) ==
    {[p \in PrayerNames |-> FieldValues(d, p).datetime]}
    \cup {[p \in PrayerNames \ {"asr"} |-> FieldValues(d, p).datetime]}
    \cup {[p \in PrayerNames |->
            IF p = "asr" THEN v ELSE FieldValues(d, p).datetime] :
                v \in {FieldValues(d, "asr").badtime, FieldValues(d, "asr").timeonly}}

\* the dates of the entries: a day of 2025 and a day that is none
ItemDates == {<< 2025, 1, 15 >>, << 2025, 2, 30 >>}

\* the entries of data['prayerData']
Items ==
    {[areaNameEn |-> Some(a), gDate |-> g, fields |-> f] :
        a \in {"DUBAI", "Sharjah"},
        g \in {None} \cup {Some(<< d, << 0, 0, 0 >> >>) : d \in ItemDates},
        f \in ItemFields(<< 2025, 1, 15 >>)}

\* main is started: fetch_prayer_times has built its url and asks for the token
MainInit ==
    /\ pc = "get_token"
    /\ now = NowBase
    /\ tokenFile \in MainTokenFiles
    /\ config \in MainConfigs
    /\ retry_count = 0
    /\ authCalls = 0
    /\ refreshSeqs = 0
    /\ waits = << >>
    /\ lastResp = NoResponse
    /\ result = NoResult
    /\ tokenFile0 = tokenFile
    /\ runs = 1
    /\ EventIdle
    /\ args \in MainArgs
    /\ schedRequests = << >>
    /\ item = NoItem
    /\ itemIndex = 0
    /\ prayer_data = << >>
    /\ fetchOutcome = "none"
    /\ generator = NoGenerator
    /\ cal = << >>
    /\ dayIndex = 0
    /\ prayerIndex = 0
    /\ calFile = NoFile
    /\ raised = ""

\* get_token has raised: fetch_prayer_times is left at line 216 and main
\* prints the error
TokenErrorEndsFetch ==
    /\ pc = "failed"
    /\ pc' = "main_failed"
    /\ fetchOutcome' = "TokenError"
    /\ raised' = result.err
    /\ UNCHANGED << args, schedRequests, item, itemIndex, prayer_data, generator,
                    cal, dayIndex, prayerIndex, calFile >>
    /\ UNCHANGED << tokenFile, config, now, retry_count, authCalls, refreshSeqs,
                    waits, lastResp, result, tokenFile0, runs >>
    /\ UNCHANGED evVars

\* requests.get(url, headers), raise_for_status and response.json(): the
\* schedule request, sent once, and its outcome
SendScheduleRequest ==
    \* get_token has ended
    /\ pc \in {"returned", "failed"}
    /\ MaySendRequest(result)
    /\ schedRequests' = Append(schedRequests, DateRange(args.year, args.month, args.day))
    /\ \E answer \in {"RequestException", "json"} :
        IF answer = "RequestException"
        THEN /\ pc' = "main_failed"
             /\ fetchOutcome' = "FetchError"
             /\ raised' = "FetchError"
        ELSE /\ pc' = "fetch_loop"
             /\ UNCHANGED << fetchOutcome, raised >>
    /\ UNCHANGED << args, item, itemIndex, prayer_data, generator,
                    cal, dayIndex, prayerIndex, calFile >>
    /\ UNCHANGED << tokenFile, config, now, retry_count, authCalls, refreshSeqs,
                    waits, lastResp, result, tokenFile0, runs >>
    /\ UNCHANGED evVars

\* the loop over data['prayerData'], for the next entry of the response
FetchItem ==
    /\ pc = "fetch_loop"
    /\ itemIndex < MaxItems
    /\ \E it \in Items :
        /\ item' = it
        /\ prayer_data' =
            IF ProcessItem(it, args.city).how = "kept"
            THEN Append(prayer_data, ProcessItem(it, args.city).schedule)
            ELSE prayer_data
    /\ itemIndex' = itemIndex + 1
    /\ UNCHANGED << pc, args, schedRequests, fetchOutcome, generator,
                    cal, dayIndex, prayerIndex, calFile, raised >>
    /\ UNCHANGED << tokenFile, config, now, retry_count, authCalls, refreshSeqs,
                    waits, lastResp, result, tokenFile0, runs >>
    /\ UNCHANGED evVars

\* after the last entry: the schedule is returned, or ValueError raised
FetchReturn ==
    /\ pc = "fetch_loop"
    /\ fetchOutcome' = FetchResult(prayer_data)
    /\ pc' = IF FetchResult(prayer_data) = "ok" THEN "fetched" ELSE "main_failed"
    /\ raised' = IF FetchResult(prayer_data) = "ok" THEN raised ELSE "NoDataError"
    /\ item' = NoItem
    /\ UNCHANGED << args, schedRequests, itemIndex, prayer_data, generator,
                    cal, dayIndex, prayerIndex, calFile >>
    /\ UNCHANGED << tokenFile, config, now, retry_count, authCalls, refreshSeqs,
                    waits, lastResp, result, tokenFile0, runs >>
    /\ UNCHANGED evVars

MainNext ==
    \/ GetToken
    \/ RefreshToken
    \/ TokenErrorEndsFetch
    \/ SendScheduleRequest
    \/ FetchItem
    \/ FetchReturn
    \/ NewGenerator
    \/ GenerateDay
    \/ GeneratePrayer
    \/ SaveCalendar

SpecMain == MainInit /\ [][MainNext]_vars

(***************************************************************************)
(* Claims about fetch_prayer_times and main.                               *)
(***************************************************************************)
\* The length of a month of the Gregorian calendar.
GregorianMonthLength(year, month) ==
    CASE month = 2 ->
            IF (year % 4 = 0 /\ year % 100 # 0) \/ year % 400 = 0 THEN 29 ELSE 28
      [] month \in {4, 6, 9, 11} -> 30
      [] OTHER -> 31

\* The request for the one day given.
RequestsDay(req, d) ==
    /\ req.start_date = << args.year, args.month, d >>
    /\ req.end_date = << args.year, args.month, d >>

\* The request for the month, the 1st through its last day.
RequestsMonth(req) ==
    /\ req.start_date = << args.year, args.month, 1 >>
    /\ req.end_date = << args.year, args.month, GregorianMonthLength(args.year, args.month) >>
    /\ (args.year = 2024 /\ args.month = 2) => req.end_date[3] = 29
    /\ (args.year = 2025 /\ args.month = 2) => req.end_date[3] = 28

RegionIsCity(it) == it.areaNameEn # None /\ Lower(it.areaNameEn[1]) = Lower(args.city)

\* The entry has a date: a gDate string with something before its 'T'.
HasDate(it) == it.gDate # None /\ it.gDate[1][1] # << >>

\* A prayer field of the entry is a non-empty string without a 'T'.
HasFieldWithoutT(it) ==
    \E p \in DOMAIN it.fields : it.fields[p] # EmptyStr /\ Len(it.fields[p]) = 1

\* fetch_prayer_times has gone through one more entry of the response.
EntryHandled == pc = "fetch_loop" /\ itemIndex' = itemIndex + 1

\* One DaySchedule more, after those there were.
OneMoreSchedule ==
    /\ Len(prayer_data') = Len(prayer_data) + 1
    /\ SubSeq(prayer_data', 1, Len(prayer_data)) = prayer_data

\* C13, as claimed: the sequence fetch_prayer_times returns holds one
\* DaySchedule for each entry of the response whose region name equals the
\* city asked for, ignoring case, none for another entry, and the entries
\* kept are in the order they had in the response.
C13_EveryMatchingEntryKept ==
    [][EntryHandled =>
        IF RegionIsCity(item') THEN OneMoreSchedule ELSE prayer_data' = prayer_data]_vars

\* C13, amended: the sequence holds, in the order of the response, one
\* DaySchedule for each entry whose region name equals the city asked for
\* ignoring case, whose gDate has a non-empty date part and none of whose
\* prayer fields is a non-empty string without a 'T' (such an entry raises
\* and is dropped); it holds none for any other entry.
C13_MatchingDatedEntriesKept ==
    [][EntryHandled =>
        IF RegionIsCity(item') /\ HasDate(item') /\ ~HasFieldWithoutT(item')
        THEN /\ OneMoreSchedule
             /\ prayer_data'[Len(prayer_data')].date = item'.gDate[1][1]
        ELSE prayer_data' = prayer_data]_vars

\* two entries of the city under another case: the first is kept, the
\* second has no gDate and is dropped
C13_Witness ==
    /\ pc = "fetch_loop"
    /\ itemIndex = 2
    /\ args.city = "Dubai"
    /\ item.areaNameEn = Some("DUBAI")
    /\ item.gDate = None
    /\ Len(prayer_data) = 1
    /\ prayer_data[1].date = << 2025, 1, 15 >>

\* The "HH:MM" of a prayer field that parses, '' for one that does not.
ParsedOrEmpty(it, p) ==
    IF /\ p \in DOMAIN it.fields
       /\ Len(it.fields[p]) = 2
       /\ ValidHMS(it.fields[p][2])
    THEN << it.fields[p][2][1], it.fields[p][2][2] >>
    ELSE << >>

\* C14, as claimed: when the time field of one prayer of a matching entry
\* cannot be parsed, whatever the shape of the malformed value, the time of
\* that prayer is recorded empty, the other four prayers keep their parsed
\* times, the day is still returned and the fetch is not aborted.
C14_UnparsableTimeRecordedEmpty ==
    [][(EntryHandled /\ RegionIsCity(item') /\ HasDate(item'))
        => /\ OneMoreSchedule
           /\ \A p \in PrayerNames :
                prayer_data'[Len(prayer_data')].timings[p] = ParsedOrEmpty(item', p)
           /\ pc' = "fetch_loop"]_vars

\* C15: fetch_prayer_times ends in NoDataError exactly when no entry of the
\* response is left by the filtering and the normalisation, so it never
\* returns an empty schedule, and a CalendarGenerator is only ever made with
\* a schedule of at least one DaySchedule.
C15_NoDataOrNonEmptySchedule ==
    /\ fetchOutcome \in {"ok", "NoDataError"}
        => /\ fetchOutcome = "NoDataError" <=> prayer_data = << >>
           /\ Len(schedRequests) = 1
    /\ fetchOutcome = "NoDataError" => (pc = "main_failed" /\ raised = "NoDataError")
    /\ pc \in {"fetched", "generate", "generate_prayers", "done"}
        => (fetchOutcome = "ok" /\ Len(prayer_data) >= 1)
    /\ generator # NoGenerator => (fetchOutcome = "ok" /\ Len(prayer_data) >= 1)
    /\ raised = "NoDataError" => fetchOutcome = "NoDataError"

\* a response of two entries, none of them kept
C15_Witness ==
    /\ fetchOutcome = "NoDataError"
    /\ itemIndex = 2
    /\ prayer_data = << >>
    /\ generator = NoGenerator
    /\ pc = "main_failed"

\* main has ended: the file is written, or an exception caught and printed.
MainEnded == pc \in {"done", "main_failed"}

\* C16, as claimed: over a run of main, when the schedule fetch fails no
\* calendar file is written, and when it succeeds a calendar file is
\* written, even if events of some (day, prayer) were skipped during the
\* synthesis; in every state "calendar file written" implies "fetch
\* succeeded".
C16_FileWrittenWhenFetchSucceeds ==
    /\ calFile.written => fetchOutcome = "ok"
    /\ (MainEnded /\ fetchOutcome # "ok") => ~calFile.written
    /\ (MainEnded /\ fetchOutcome = "ok") => calFile.written

\* What C18 says of every state of a call of fetch_prayer_times.
AtMostOneScheduleRequest ==
    /\ Len(schedRequests) <= 1
    \* a request has been sent: get_token had returned a token
    /\ schedRequests # << >> => (result.kind = "token" /\ pc \notin {"get_token", "refresh_token"})
    \* get_token failed: no request
    /\ result.kind = "error" => (schedRequests = << >> /\ fetchOutcome \in {"none", "TokenError"})
    /\ fetchOutcome = "TokenError" => (schedRequests = << >> /\ pc = "main_failed")
    \* the request failed: FetchError, after the one request
    /\ fetchOutcome = "FetchError"
        => (Len(schedRequests) = 1 /\ pc = "main_failed" /\ raised = "FetchError")

\* The request is sent when get_token has returned, and is not sent again.
ScheduleRequestSentOnce ==
    /\ schedRequests' # schedRequests
        => /\ pc = "returned"
           /\ result.kind = "token"
           /\ schedRequests = << >>
           /\ Len(schedRequests') = 1
           /\ authCalls' = authCalls
    /\ schedRequests # << >> => pc' \notin {"get_token", "refresh_token", "returned"}

\* C18: one call of fetch_prayer_times sends at most one request to the
\* schedule endpoint, only after get_token has returned an access token, and
\* never sends it again: when get_token fails no schedule request is sent,
\* and when the schedule request fails the call ends in FetchError without
\* a retry.
C18_OneScheduleRequest ==
    /\ []AtMostOneScheduleRequest
    /\ [][ScheduleRequestSentOnce]_vars

\* the token was refreshed at the second authorization call, then the one
\* schedule request failed
C18_Witness ==
    /\ fetchOutcome = "FetchError"
    /\ Len(schedRequests) = 1
    /\ authCalls = 2
    /\ result.kind = "token"
    /\ pc = "main_failed"

(***************************************************************************)
(* The value get_token returns and the persisted record.                   *)
(***************************************************************************)
\* C21: whenever get_token returns a value, by the cached path or after any
\* number of refresh attempts, that value is the access token of the
\* persisted token record at the moment of the return.
C21_ReturnedTokenIsPersisted ==
    /\ result.kind = "token"
        => /\ pc = "returned"
           /\ tokenFile.kind = "json"
           /\ "clientAccessToken" \in DOMAIN tokenFile.data
           /\ result.token = tokenFile.data["clientAccessToken"]
    /\ pc = "returned" => result.kind = "token"

\* a refresh that succeeded at its third attempt replaced the access token
C21_Witness ==
    /\ pc = "returned"
    /\ authCalls = 3
    /\ tokenFile0.kind = "json"
    /\ tokenFile0.data["clientAccessToken"] = Some("tokA")
    /\ result.token = Some("tokB")
    /\ tokenFile.data["clientAccessToken"] = Some("tokB")

(***************************************************************************)
(* The pairs of events in the document.                                    *)
(***************************************************************************)
\* C22, as claimed: events enter the calendar document only in complete
\* pairs.  After every step of generate each adhan event of the document is
\* immediately followed by the prayer event of the same (date, prayer), so
\* the document holds exactly 2 events for each (day, prayer) that was not
\* skipped, and never an adhan event without its prayer event.
C22_CompletePairs ==
    /\ \A k \in 1..Len(cal) :
        IF IsAdhan(k)
        THEN /\ k < Len(cal)
             /\ ~IsAdhan(k + 1)
             /\ cal[k + 1].at = cal[k].at
        ELSE /\ k > 1
             /\ IsAdhan(k - 1)
             /\ cal[k - 1].at = cal[k].at
    /\ \A i \in 1..Len(prayer_data), j \in 1..Len(Prayers) :
        Len(EventsAt(i, j)) \in {0, 2}

====
